---- MODULE Spec2Model ----
(***************************************************************************)
(* Near-Earth-object database: the loaders of extract.py, the entities of  *)
(* models.py and the NEODatabase of database.py (construction with its     *)
(* two indices and the linking pass, the two lookups and the query         *)
(* generator).                                                             *)
(*                                                                         *)
(* Objects live in two heaps (sequences indexed by object identity); a     *)
(* reference is an index, NoObj is Python's None for references.  An       *)
(* optional string is None (<<>>) or Some(s) (<<s>>).                      *)
(***************************************************************************)
EXTENDS Integers, Sequences, FiniteSets, TLC

\* ---------------------------------------------------------------- bounds
MaxNeos == 2          \* rows of the NEO csv file
MaxApproaches == 2    \* rows of the close-approach json file
MaxFilters == 2       \* filters handed to one query call
MaxBuilds == 2        \* NEODatabase constructions (SpecRebuild only)

\* ------------------------------------------------------- input alphabets
Designations == {"433", "999"}
CsvNames == {"", "Eros"}
CsvDiameters == {"", "16.84", "n/a"}
CsvDistances == {"0.15", "n/a"}
QueryHandles == {"q1", "q2"}

None == <<>>
Some(s) == <<s>>
NoObj == 0

\* float(s): the strings of the alphabets Python parses as a float
IsFloat(s) == s \in {"16.84", "0.15"}

\* Python truthiness of an optional string: None and "" are falsy
Truthy(name) == name # None /\ name # Some("")

VARIABLES
    neoHeap,      \* NearEarthObject objects: [designation, name, approaches]
    caHeap,       \* CloseApproach objects: [_designation, neo]
    neos,         \* the list load_neos returned (references), once loaded
    approaches,   \* the list load_approaches returned (references)
    loaded,       \* [neos: BOOLEAN, approaches: BOOLEAN]
    db,           \* the NEODatabase object
    builds,       \* number of NEODatabase constructions so far
    gens,         \* the generator objects query returned, by handle
    ret           \* the last lookup: [op, arg, val]

vars == <<neoHeap, caHeap, neos, approaches, loaded, db, builds, gens, ret>>

graph == <<neoHeap, caHeap, db>>

\* ------------------------------------------------------------- models.py
NearEarthObject(info) ==
    [designation |-> info.designation,
     name |-> info.name,
     approaches |-> <<>>]

CloseApproach(info) ==
    [_designation |-> info.designation,
     neo |-> NoObj]

\* ------------------------------------------------------------ extract.py
NeoRows == [pdes : Designations, name : CsvNames, diameter : CsvDiameters]
ApproachRows == [des : Designations, dist : CsvDistances]

SeqsUpTo(S, n) == UNION {[1..k -> S] : k \in 0..n}

\* the data set's invariant: a unique primary designation, an optional
\* unique name
UniqueRows(rows) ==
    \A i, j \in 1..Len(rows) :
        i # j => /\ rows[i].pdes # rows[j].pdes
                 /\ (rows[i].name # "" => rows[i].name # rows[j].name)

NeoFiles == {rows \in SeqsUpTo(NeoRows, MaxNeos) : UniqueRows(rows)}
ApproachFiles == SeqsUpTo(ApproachRows, MaxApproaches)

RECURSIVE load_neos(_)
load_neos(rows) ==
    IF rows = <<>> THEN <<>>
    ELSE LET row == Head(rows)
             rest == load_neos(Tail(rows))
         IN IF row.diameter # "" /\ ~IsFloat(row.diameter)
            THEN rest       \* ValueError: the row is reported and skipped
            ELSE <<NearEarthObject(
                     [designation |-> row.pdes,
                      name |-> IF row.name = "" THEN None ELSE Some(row.name)])>>
                 \o rest

RECURSIVE load_approaches(_)
load_approaches(rows) ==
    IF rows = <<>> THEN <<>>
    ELSE LET row == Head(rows)
             rest == load_approaches(Tail(rows))
         IN IF ~IsFloat(row.dist)
            THEN rest       \* ValueError: the row is reported and skipped
            ELSE <<CloseApproach([designation |-> row.des])>> \o rest

\* references of n objects allocated after the first `base` of a heap
RECURSIVE Refs(_, _)
Refs(base, n) == IF n = 0 THEN <<>> ELSE Append(Refs(base, n - 1), base + n)

\* ----------------------------------------------------------- database.py
DictGet(d, k) == IF k \in DOMAIN d THEN d[k] ELSE NoObj
DictSet(d, k, v) == [x \in (DOMAIN d) \cup {k} |-> IF x = k THEN v ELSE d[x]]

\* {neo.designation: neo for neo in neos}
RECURSIVE DesignationIndex(_, _)
DesignationIndex(heap, coll) ==
    IF coll = <<>> THEN <<>>
    ELSE LET n == Len(coll)
             neo == coll[n]
         IN DictSet(DesignationIndex(heap, SubSeq(coll, 1, n - 1)),
                    heap[neo].designation, neo)

RECURSIVE NameIndexAll(_, _)
NameIndexAll(heap, coll) ==
    IF coll = <<>> THEN <<>>
    ELSE LET n == Len(coll)
             neo == coll[n]
         IN DictSet(NameIndexAll(heap, SubSeq(coll, 1, n - 1)),
                    heap[neo].name, neo)

\* {neo.name: neo for neo in neos if neo.name}
RECURSIVE NameIndex(_, _)
NameIndex(heap, coll) ==
    IF coll = <<>> THEN <<>>
    ELSE LET n == Len(coll)
             neo == coll[n]
             before == NameIndex(heap, SubSeq(coll, 1, n - 1))
         IN IF Truthy(heap[neo].name)
            THEN DictSet(before, heap[neo].name, neo)
            ELSE before

LinkOneNoAppend(hs, index, a) ==
    LET neo == DictGet(index, hs.ca[a]._designation)
    IN IF neo # NoObj
       THEN [neo |-> hs.neo,
             ca |-> [hs.ca EXCEPT ![a].neo = neo]]
       ELSE hs

LinkOnePrepend(hs, index, a) ==
    LET neo == DictGet(index, hs.ca[a]._designation)
    IN IF neo # NoObj
       THEN [neo |-> [hs.neo EXCEPT ![neo].approaches = <<a>> \o @],
             ca |-> [hs.ca EXCEPT ![a].neo = neo]]
       ELSE hs

\* one iteration of the linking loop, for approach reference a
LinkOne(hs, index, a) ==
    LET neo == DictGet(index, hs.ca[a]._designation)
    IN IF neo # NoObj
       THEN [neo |-> [hs.neo EXCEPT ![neo].approaches = Append(@, a)],
             ca |-> [hs.ca EXCEPT ![a].neo = neo]]
       ELSE hs

\* for approach in self._approaches: ...
RECURSIVE Link(_, _, _)
Link(hs, index, apps) ==
    IF apps = <<>> THEN hs
    ELSE Link(LinkOne(hs, index, Head(apps)), index, Tail(apps))

RECURSIVE Reverse(_)
Reverse(s) == IF s = <<>> THEN <<>> ELSE Append(Reverse(Tail(s)), Head(s))

NEODatabaseReversed(ns, as) ==
    [_neos |-> ns,
     _approaches |-> Reverse(as),
     _neo_designations |-> DesignationIndex(neoHeap, ns),
     _neo_names |-> NameIndex(neoHeap, ns)]

\* the attributes NEODatabase.__init__ sets before the linking pass
NEODatabase(ns, as) ==
    [_neos |-> ns,
     _approaches |-> as,
     _neo_designations |-> DesignationIndex(neoHeap, ns),
     _neo_names |-> NameIndex(neoHeap, ns)]

get_neo_by_designation_names(designation) ==
    DictGet(db._neo_names, Some(designation))

get_neo_by_designation(designation) == DictGet(db._neo_designations, designation)

get_neo_by_name(name) == DictGet(db._neo_names, name)

\* a filter of the query caller: "the approach's designation equals d"
Filters == [designation : Designations]
FilterMatches(f, a) == caHeap[a]._designation = f.designation
\* the filter collections a caller passes: each criterion at most once
FilterTuples ==
    {fs \in SeqsUpTo(Filters, MaxFilters) :
        \A i, j \in 1..Len(fs) : i # j => fs[i] # fs[j]}

\* the generator object a call of query returns: nothing of the body has run
NewGeneratorEager(filters) ==
    [live |-> TRUE, filters |-> filters, pos |-> Len(db._approaches),
     out |-> <<>>, evals |-> 0, done |-> FALSE]

NewGenerator(filters) ==
    [live |-> TRUE, filters |-> filters, pos |-> 0, out |-> <<>>,
     evals |-> 0, done |-> FALSE]

Max(S) == CHOOSE x \in S : \A y \in S : y <= x

ResumeShared(gs, h, apps) ==
    LET c == Max({gs[g].pos : g \in DOMAIN gs})
    IN IF c < Len(apps)
       THEN [g \in DOMAIN gs |->
               IF g = h
               THEN [gs[g] EXCEPT !.pos = c + 1, !.out = Append(@, apps[c + 1])]
               ELSE [gs[g] EXCEPT !.pos = IF gs[g].live THEN c + 1 ELSE @]]
       ELSE [gs EXCEPT ![h].done = TRUE]

ResumeLinkedOnly(gs, h, apps) ==
    LET later == {j \in DOMAIN apps : j > gs[h].pos /\ caHeap[apps[j]].neo # NoObj}
    IN IF later # {}
       THEN LET j == CHOOSE x \in later : \A y \in later : x <= y
            IN [gs EXCEPT ![h].pos = j, ![h].out = Append(@, apps[j])]
       ELSE [gs EXCEPT ![h].pos = Len(apps), ![h].done = TRUE]

\* next(generator h): the body `for approach in self._approaches: yield approach`
\* runs to its next yield, or to its end (StopIteration)
Resume(gs, h, apps) ==
    IF gs[h].pos < Len(apps)
    THEN [gs EXCEPT ![h].pos = @ + 1, ![h].out = Append(@, apps[gs[h].pos + 1])]
    ELSE [gs EXCEPT ![h].done = TRUE]

\* --------------------------------------------------------------- actions
NoDb == [_neos |-> <<>>, _approaches |-> <<>>,
         _neo_designations |-> <<>>, _neo_names |-> <<>>]
NoGen == [live |-> FALSE, filters |-> <<>>, pos |-> 0, out |-> <<>>,
          evals |-> 0, done |-> FALSE]
NoRet == [op |-> "none", arg |-> None, val |-> NoObj]

DesignationArgs == Designations \cup {"000"}
NameArgs == {None} \cup {Some(s) : s \in CsvNames \cup {"eros"}}

Init ==
    /\ neoHeap = <<>>
    /\ caHeap = <<>>
    /\ neos = <<>>
    /\ approaches = <<>>
    /\ loaded = [neos |-> FALSE, approaches |-> FALSE]
    /\ db = NoDb
    /\ builds = 0
    /\ gens = [h \in QueryHandles |-> NoGen]
    /\ ret = NoRet

LoadNeos ==
    /\ ~loaded.neos
    /\ \E rows \in NeoFiles :
         LET objs == load_neos(rows)
         IN /\ neoHeap' = neoHeap \o objs
            /\ neos' = Refs(Len(neoHeap), Len(objs))
    /\ loaded' = [loaded EXCEPT !.neos = TRUE]
    /\ UNCHANGED <<caHeap, approaches, db, builds, gens, ret>>

LoadApproaches ==
    /\ ~loaded.approaches
    /\ \E rows \in ApproachFiles :
         LET objs == load_approaches(rows)
         IN /\ caHeap' = caHeap \o objs
            /\ approaches' = Refs(Len(caHeap), Len(objs))
    /\ loaded' = [loaded EXCEPT !.approaches = TRUE]
    /\ UNCHANGED <<neoHeap, neos, db, builds, gens, ret>>

\* NEODatabase(neos, approaches): the indices, then the linking pass
Build ==
    LET new == NEODatabase(neos, approaches)
        hs == Link([neo |-> neoHeap, ca |-> caHeap],
                   new._neo_designations, new._approaches)
    IN /\ db' = new
       /\ neoHeap' = hs.neo
       /\ caHeap' = hs.ca
       /\ builds' = builds + 1
       /\ UNCHANGED <<neos, approaches, loaded, gens, ret>>

Construct ==
    /\ loaded.neos /\ loaded.approaches
    /\ builds = 0
    /\ Build

GetNeoByDesignation(designation) ==
    /\ builds > 0
    /\ ret' = [op |-> "get_neo_by_designation", arg |-> Some(designation),
               val |-> get_neo_by_designation(designation)]
    /\ UNCHANGED <<neoHeap, caHeap, neos, approaches, loaded, db, builds, gens>>

GetNeoByNamePop(name) ==
    /\ builds > 0
    /\ ret' = [op |-> "get_neo_by_name", arg |-> name,
               val |-> get_neo_by_name(name)]
    /\ db' = [db EXCEPT !._neo_names =
                [k \in (DOMAIN db._neo_names) \ {name} |-> db._neo_names[k]]]
    /\ UNCHANGED <<neoHeap, caHeap, neos, approaches, loaded, builds, gens>>

GetNeoByName(name) ==
    /\ builds > 0
    /\ ret' = [op |-> "get_neo_by_name", arg |-> name,
               val |-> get_neo_by_name(name)]
    /\ UNCHANGED <<neoHeap, caHeap, neos, approaches, loaded, db, builds, gens>>

Query(h, filters) ==
    /\ builds > 0
    /\ gens' = [gens EXCEPT ![h] = NewGenerator(filters)]
    /\ UNCHANGED <<neoHeap, caHeap, neos, approaches, loaded, db, builds, ret>>

GenNext(h) ==
    /\ gens[h].live
    /\ ~gens[h].done
    /\ gens' = Resume(gens, h, db._approaches)
    /\ UNCHANGED <<neoHeap, caHeap, neos, approaches, loaded, db, builds, ret>>

\* a second run of the loader and of the constructor over entities that an
\* earlier construction has linked already
ReloadNeos ==
    /\ builds > 0
    /\ builds < MaxBuilds
    /\ Len(neoHeap) = Len(neos)
    /\ \E rows \in NeoFiles :
         LET objs == load_neos(rows)
         IN /\ neoHeap' = neoHeap \o objs
            /\ neos' = Refs(Len(neoHeap), Len(objs))
    /\ UNCHANGED <<caHeap, approaches, loaded, db, builds, gens, ret>>

Rebuild ==
    /\ builds > 0
    /\ builds < MaxBuilds
    /\ Build

Lookups ==
    \/ \E d \in DesignationArgs : GetNeoByDesignation(d)
    \/ \E n \in NameArgs : GetNeoByName(n)

Queries ==
    \/ \E h \in QueryHandles, fs \in FilterTuples : Query(h, fs)
    \/ \E h \in QueryHandles : GenNext(h)

Next == LoadNeos \/ LoadApproaches \/ Construct \/ Lookups \/ Queries

Spec == Init /\ [][Next]_vars

NextRebuild == LoadNeos \/ LoadApproaches \/ Construct \/ ReloadNeos \/ Rebuild

SpecRebuild == Init /\ [][NextRebuild]_vars

\* ---------------------------------------------------------------- claims
Range(s) == {s[i] : i \in DOMAIN s}
Count(s, x) == Cardinality({i \in DOMAIN s : s[i] = x})
Built == builds > 0
Matching(a) == {n \in Range(neos) : neoHeap[n].designation = caHeap[a]._designation}
Unfiltered(h) == gens[h].live /\ gens[h].filters = <<>>

\* C1: what a designation lookup must return for argument d
DesignationLookupOk(d, r) ==
    /\ (r # NoObj) <=> (\E n \in Range(neos) : neoHeap[n].designation = d)
    /\ r # NoObj => r \in Range(neos) /\ neoHeap[r].designation = d

\* C1: get_neo_by_designation(d) returns the input NEO whose designation is
\* d exactly when the input NEO collection has one, and None otherwise.
C1_DesignationLookup ==
    Built =>
      /\ \A d \in DesignationArgs : DesignationLookupOk(d, get_neo_by_designation(d))
      /\ ret.op = "get_neo_by_designation" => DesignationLookupOk(ret.arg[1], ret.val)

C1_Witness ==
    /\ ret.op = "get_neo_by_designation"
    /\ ret.val # NoObj
    /\ Len(neos) = 2

\* C2: every input NEO with a present name is what get_neo_by_name returns
\* for that name; an input NEO without a name is returned by no name lookup,
\* whatever the argument (None and "" included).
C2_NameLookup ==
    Built =>
      /\ \A n \in Range(neos) :
           /\ neoHeap[n].name # None => get_neo_by_name(neoHeap[n].name) = n
           /\ neoHeap[n].name = None =>
                \A x \in NameArgs : get_neo_by_name(x) # n
      /\ ret.op = "get_neo_by_name" /\ ret.val # NoObj =>
           /\ ret.val \in Range(neos)
           /\ neoHeap[ret.val].name = ret.arg

C2_Witness ==
    /\ ret.op = "get_neo_by_name"
    /\ ret.val # NoObj
    /\ \E n \in Range(neos) : neoHeap[n].name = None

\* C3: an input approach whose designation is that of an input NEO has that
\* NEO as its neo, and is in that NEO's approaches exactly once.
C3_MatchedLinked ==
    Built =>
      \A a \in Range(approaches) : \A n \in Matching(a) :
          /\ caHeap[a].neo = n
          /\ Count(neoHeap[n].approaches, a) = 1

C3_Witness ==
    /\ Built
    /\ \E a, b \in Range(approaches) :
         a # b /\ caHeap[a].neo # NoObj /\ caHeap[a].neo = caHeap[b].neo

\* C4: an input approach whose designation matches no input NEO keeps neo
\* None, is in no NEO's approaches, and is among the results of a query
\* without filters; the construction has completed.
C4_UnmatchedKept ==
    Built =>
      \A a \in Range(approaches) :
          Matching(a) = {} =>
            /\ caHeap[a].neo = NoObj
            /\ \A n \in DOMAIN neoHeap : Count(neoHeap[n].approaches, a) = 0
            /\ a \in Range(db._approaches)
            /\ \A h \in QueryHandles :
                 Unfiltered(h) /\ gens[h].done => a \in Range(gens[h].out)

C4_Witness ==
    /\ Built
    /\ \E a, b \in Range(approaches) :
         Matching(a) = {} /\ caHeap[b].neo # NoObj
    /\ \E h \in QueryHandles : Unfiltered(h) /\ gens[h].done

\* C5: a query yields an approach if and only if every filter of the call
\* is true of it.
C5_FiltersApplied ==
    \A h \in QueryHandles :
        gens[h].live =>
          /\ \A i \in DOMAIN gens[h].out : \A f \in Range(gens[h].filters) :
                 FilterMatches(f, gens[h].out[i])
          /\ gens[h].done =>
               \A a \in Range(approaches) :
                   (\A f \in Range(gens[h].filters) : FilterMatches(f, a))
                       => a \in Range(gens[h].out)

\* C6: a query without filters yields the input approach collection, each
\* approach once, in the order of the input.
C6_UnfilteredAll ==
    \A h \in QueryHandles :
        Unfiltered(h) =>
          /\ gens[h].out = SubSeq(approaches, 1, Len(gens[h].out))
          /\ gens[h].done => gens[h].out = approaches

C6_Witness ==
    /\ \E h \in QueryHandles : Unfiltered(h) /\ gens[h].done
    /\ Len(approaches) = 2
    /\ \E a \in Range(approaches) : caHeap[a].neo = NoObj

\* C7: two queries with equivalent filters yield the same elements in the
\* same order, however the consumption of the two is interleaved.
C7_QueriesIndependent ==
    \A g, h \in QueryHandles :
        (/\ g # h
         /\ gens[g].live /\ gens[h].live
         /\ Range(gens[g].filters) = Range(gens[h].filters)) =>
          /\ \A i \in (DOMAIN gens[g].out) \cap (DOMAIN gens[h].out) :
                 gens[g].out[i] = gens[h].out[i]
          /\ gens[g].done /\ gens[h].done => gens[g].out = gens[h].out
          /\ gens[g].done => Len(gens[h].out) <= Len(gens[g].out)

C7_Witness ==
    \E g, h \in QueryHandles :
        /\ g # h
        /\ gens[g].live /\ gens[h].live
        /\ gens[g].filters = gens[h].filters
        /\ gens[g].done /\ Len(gens[g].out) = 2
        /\ ~gens[h].done /\ Len(gens[h].out) = 1

\* C8: once the database is constructed, no step changes the indices, the
\* stored collections, a back-reference or an approaches list.
C8_ReadOnly ==
    [][Built => /\ graph' = graph
                /\ neos' = neos
                /\ approaches' = approaches]_vars

C8_Witness ==
    /\ Built
    /\ ret.op = "get_neo_by_name"
    /\ \E h \in QueryHandles : gens[h].live /\ gens[h].pos = 1 /\ ~gens[h].done
    /\ \E a \in Range(approaches) : caHeap[a].neo # NoObj

\* C9: a query has visited nothing when it is returned, has visited exactly
\* the first k stored approaches when k results are consumed, and has
\* evaluated no filter when none was supplied.
C9_Lazy ==
    \A h \in QueryHandles :
        gens[h].live =>
          /\ gens[h].pos = Len(gens[h].out)
          /\ gens[h].pos <= Len(db._approaches)
          /\ gens[h].filters = <<>> => gens[h].evals = 0

C9_Witness ==
    \E h \in QueryHandles :
        /\ gens[h].live
        /\ gens[h].pos = 1
        /\ Len(db._approaches) = 2
        /\ ~gens[h].done

\* C10 as stated: whatever constructions have run, a is in n.approaches
\* exactly when a.neo is n, a.neo has a's designation, and n.approaches
\* follows the order of the input approaches.
C10_AnyConstructions ==
    /\ \A a \in DOMAIN caHeap : \A n \in DOMAIN neoHeap :
           (a \in Range(neoHeap[n].approaches)) <=> (caHeap[a].neo = n)
    /\ \A a \in DOMAIN caHeap :
           caHeap[a].neo # NoObj =>
               neoHeap[caHeap[a].neo].designation = caHeap[a]._designation
    /\ \A n \in DOMAIN neoHeap :
           LET Mine(a) == caHeap[a].neo = n
           IN neoHeap[n].approaches = SelectSeq(approaches, Mine)

\* C10: while no entity has been handed to a second construction, the
\* links are consistent: a is in n.approaches exactly when a.neo is n,
\* a.neo has a's designation, and n.approaches follows the input order.
C10_OneConstruction == builds <= 1 => C10_AnyConstructions

C10_Witness ==
    /\ builds = 1
    /\ \E a, b \in Range(approaches) :
         a # b /\ caHeap[a].neo # NoObj /\ caHeap[a].neo = caHeap[b].neo
    /\ Len(neos) = 2

====
